---- MODULE Spec2Model ----
(***************************************************************************)
(* Model of examples/uv/daily_notes_processor running against a Trilium    *)
(* note store, in four parts:                                              *)
(*   Spec       the duplicate-set merger (merge_lien_inclus_notes and      *)
(*              get_notes_by_title_and_date) with the title resolver,      *)
(*   SpecMatch  the hash-terminated URL match on a text of its own,        *)
(*   SpecRead   the extractor of highlights and links                      *)
(*              (process_read_notes) run over one read note.               *)
(*   SpecMain   the passes of main over the notes of one run: selection,   *)
(*              revisions, internal links, link notes, read notes.         *)
(*                                                                         *)
(* The store is the external collaborator: a call on a note that is no     *)
(* longer in the store fails (not-found), any call may fail while the      *)
(* failure budget lasts, and a failed call leaves the store unchanged.     *)
(* The log and the cand field of an error entry are bookkeeping for the    *)
(* properties; the code keeps neither.                                     *)
(*                                                                         *)
(* Text is a sequence of tokens.  "H" stands for the literal "http://"     *)
(* (or "https://"), "L" for the literal "Lien inclus", " " and "\n" are    *)
(* the whitespace characters, "#" is the hash sign and every other token   *)
(* is one ordinary character.  An HTML body is a sequence of start tags,   *)
(* end tags and whitespace.                                                *)
(***************************************************************************)
EXTENDS Integers, Sequences, FiniteSets, TLC

\* ------------------------------------------------------------------------
\* Bounds
\* ------------------------------------------------------------------------
MaxNotes == 3      \* notes in the store
MaxCands == 2      \* length of the candidate list; notes seen by main
MaxFails == 1      \* store calls that may fail in one run
MaxAge   == 3      \* age in days of the oldest notes (--days-back)
MaxText  == 5      \* tokens of a text handed to the URL matcher on its own
MaxNodes == 4      \* elements in the body of a read note
MaxRuns  == 2      \* passes of the extractor over the same read note

\* Program constant: the search window of the duplicate query (TODAY-2).
SearchWindow == 2

NoteIds == 1..MaxNotes

\* ------------------------------------------------------------------------
\* Strings
\* ------------------------------------------------------------------------
IsSpace(c) == c \in {" ", "\n"}

RECURSIVE LStrip(_)
LStrip(s) == IF s # <<>> /\ IsSpace(Head(s)) THEN LStrip(Tail(s)) ELSE s

RECURSIVE RStrip(_)
RStrip(s) ==
    IF s # <<>> /\ IsSpace(s[Len(s)]) THEN RStrip(SubSeq(s, 1, Len(s) - 1)) ELSE s

\* str.strip()
Strip(s) == RStrip(LStrip(s))

\* str.startswith(prefix)
StartsWith(s, prefix) ==
    Len(s) >= Len(prefix) /\ SubSeq(s, 1, Len(prefix)) = prefix

\* str.split('\n'): the lines of s, at least one
RECURSIVE SplitFrom(_, _)
SplitFrom(s, cur) ==
    IF s = <<>> THEN <<cur>>
    ELSE IF Head(s) = "\n" THEN <<cur>> \o SplitFrom(Tail(s), <<>>)
    ELSE SplitFrom(Tail(s), Append(cur, Head(s)))

SplitLines(s) == SplitFrom(s, <<>>)

\* sep.join(parts)
RECURSIVE Join(_, _)
Join(parts, sep) ==
    IF parts = <<>> THEN <<>>
    ELSE IF Len(parts) = 1 THEN parts[1]
    ELSE parts[1] \o sep \o Join(Tail(parts), sep)

IsHttp(line) == StartsWith(line, <<"H">>)

LienInclus == <<"L">>
BlankLine  == <<"\n", "\n">>
NoUrl      == <<>>
NoTitle    == <<>>

\* re.search(r'(https?://[^#\s]+)(?=#)', text): the run of characters that
\* are neither '#' nor whitespace after position i ends at RunEnd(text, i)
RECURSIVE RunEnd(_, _)
RunEnd(text, j) ==
    IF j < Len(text) /\ text[j + 1] # "#" /\ ~IsSpace(text[j + 1])
    THEN RunEnd(text, j + 1) ELSE j

MatchAt(text, i) ==
    /\ text[i] = "H"
    /\ RunEnd(text, i) > i
    /\ RunEnd(text, i) < Len(text)
    /\ text[RunEnd(text, i) + 1] = "#"

\* (variant: the last place of the text where the pattern matches)
HashTerminated_Last(text) ==
    LET starts == {i \in 1..Len(text) : MatchAt(text, i)}
    IN  IF starts = {} THEN NoUrl
        ELSE LET i == CHOOSE k \in starts : \A m \in starts : k >= m
             IN  SubSeq(text, i, RunEnd(text, i))

\* the leftmost place where the pattern matches, without the '#'
HashTerminated(text) ==
    LET starts == {i \in 1..Len(text) : MatchAt(text, i)}
    IN  IF starts = {} THEN NoUrl
        ELSE LET i == CHOOSE k \in starts : \A m \in starts : k <= m
             IN  SubSeq(text, i, RunEnd(text, i))

\* the fallback loop: the last line that starts with http, trimmed
RECURSIVE LastHttpLine(_)
LastHttpLine(lines) ==
    IF lines = <<>> THEN NoUrl
    ELSE IF IsHttp(Strip(lines[Len(lines)])) THEN Strip(lines[Len(lines)])
    ELSE LastHttpLine(SubSeq(lines, 1, Len(lines) - 1))

TrailingLine(text) == LastHttpLine(SplitLines(Strip(text)))

\* (variant: the trailing line tried before the hash-terminated match)
FindPageUrl_TrailingFirst(text) ==
    IF TrailingLine(text) # NoUrl THEN TrailingLine(text) ELSE HashTerminated(text)

\* lines 499-517: the hash-terminated match, else the trailing line
FindPageUrl(text) ==
    IF HashTerminated(text) # NoUrl THEN HashTerminated(text) ELSE TrailingLine(text)

\* ------------------------------------------------------------------------
\* The note store and the merger's state
\* ------------------------------------------------------------------------
VARIABLES
    store,            \* noteId -> [exists, title, dateCreated, content,
                      \*            isProtected, type]
    notes,            \* the candidate list (a snapshot of the note summaries)
    i,                \* position of the for loop in notes
    pc,               \* position inside the loop body
    title,            \* locals of merge_lien_inclus_notes ...
    date_created,
    duplicate_notes,
    target_note_id,
    merged_content,
    d,                \* position of the inner loop in duplicate_notes
    current_content,
    page_url,
    results,          \* [processed, merged, titles_updated, errors]
    log,              \* the calls issued to the collaborators, in order
    fails,            \* store calls that have failed so far
    subject,          \* URL matcher: the text searched
    match,            \* URL matcher: the answer of the hash-terminated match
    content,          \* extractor: the stored body of the read note (HTML)
    soup,             \* extractor: the body as parsed by the last pass
    extracted_elements, \* extractor: the roots collected by the last pass
    paragraphs,       \* extractor: the blocks built by the last pass
    updates,          \* extractor: the update_note_content calls issued
    read_results,     \* extractor: [processed, highlights_extracted]
    run,              \* extractor: passes made over the read note
    stored,           \* main: noteId -> what the queries of main see of a note
    recent_created_notes,  \* main: answer of the dateCreated query
    recent_modified_notes, \* main: answer of the dateModified query
    link_notes,       \* main: created notes with the #link label
    other_notes,      \* main: created notes without it
    read_notes,       \* main: modified notes with the #clipType label
    revision_results, \* main: [total, successful, failed]
    calls,            \* main: the store calls of the run, in order
    at                \* main: position in the list of the current pass

vars == <<store, notes, i, pc, title, date_created, duplicate_notes,
          target_note_id, merged_content, d, current_content, page_url,
          results, log, fails, subject, match, content, soup,
          extracted_elements, paragraphs, updates, read_results, run,
          stored, recent_created_notes, recent_modified_notes, link_notes,
          other_notes, read_notes, revision_results, calls, at>>

\* the variables of merge_lien_inclus_notes and of its store
merger == <<store, notes, i, pc, title, date_created, duplicate_notes,
            target_note_id, merged_content, d, current_content, page_url,
            results, log, fails>>

\* the variables of the URL matcher on its own
matcher == <<subject, match>>

\* the variables of process_read_notes
reader == <<content, soup, extracted_elements, paragraphs, updates,
            read_results, run>>

\* the variables of main
pipeline == <<stored, recent_created_notes, recent_modified_notes, link_notes,
              other_notes, read_notes, revision_results, calls, at>>

locals == <<title, date_created, duplicate_notes, target_note_id,
            merged_content, d, current_content, page_url>>

\* dateCreated is [day, time]; day 0 is today, day -k is k days ago.
\* dateCreated[:10] is the day; the sort compares the whole string.
Day(ts) == ts.day
DateLeq(a, b) == a.day < b.day \/ (a.day = b.day /\ a.time <= b.time)

TitleX    == <<"L", "x">>
TitleXPad == <<" ", "L", "x", " ">>

\* The notes a store may hold at the start of a run: clip notes of today
\* created at three different times (one ends with a plain URL line, one has
\* an empty body, one holds a URL followed by '#' and is protected), a clip
\* note created MaxAge days ago that is not a text note, and one whose title
\* carries surrounding whitespace.
Profiles ==
    { [title |-> TitleX, dateCreated |-> [day |-> 0, time |-> 1],
       content |-> <<"a", "\n", "H", "x", "\n">>,
       isProtected |-> FALSE, type |-> "text"],
      [title |-> TitleX, dateCreated |-> [day |-> 0, time |-> 2],
       content |-> <<" ">>,
       isProtected |-> FALSE, type |-> "text"],
      [title |-> TitleX, dateCreated |-> [day |-> 0, time |-> 3],
       content |-> <<" ", "c", " ", "H", "z", "#">>,
       isProtected |-> TRUE, type |-> "text"],
      [title |-> TitleX, dateCreated |-> [day |-> 0 - MaxAge, time |-> 1],
       content |-> <<"b", "\n", "H", "y">>,
       isProtected |-> FALSE, type |-> "code"],
      [title |-> TitleXPad, dateCreated |-> [day |-> 0, time |-> 1],
       content |-> <<"b">>,
       isProtected |-> FALSE, type |-> "text"] }

\* Titles the title resolver may return (article.title).
ArticleTitles == {<<"t">>}

AllIds == [k \in NoteIds |-> k]

\* No text is being matched outside the merger.
MatcherIdle ==
    /\ subject = <<>>
    /\ match = NoUrl

\* No read note is being processed.
ReaderIdle ==
    /\ content = <<>>
    /\ soup = <<>>
    /\ extracted_elements = <<>>
    /\ paragraphs = <<>>
    /\ updates = <<>>
    /\ read_results = [processed |-> 0, highlights_extracted |-> 0]
    /\ run = 0

\* main is not running.
PipelineIdle ==
    /\ stored = <<>>
    /\ recent_created_notes = <<>>
    /\ recent_modified_notes = <<>>
    /\ link_notes = <<>>
    /\ other_notes = <<>>
    /\ read_notes = <<>>
    /\ revision_results = [total |-> 0, successful |-> 0, failed |-> 0]
    /\ calls = <<>>
    /\ at = 1

\* The notes argument: a snapshot (noteId, title, isProtected, type) of the
\* first notes of the store, as the search that precedes the run lists them.
Snapshot(st, len) ==
    [k \in 1..len |-> [noteId |-> k, title |-> st[k].title,
                       isProtected |-> st[k].isProtected, type |-> st[k].type]]

Init ==
    /\ \E st \in [NoteIds -> Profiles] :
         /\ store = [k \in NoteIds |->
                       [exists |-> TRUE, title |-> st[k].title,
                        dateCreated |-> st[k].dateCreated,
                        content |-> st[k].content,
                        isProtected |-> st[k].isProtected,
                        type |-> st[k].type]]
         /\ \E len \in 1..MaxCands :
              /\ len <= MaxNotes
              /\ notes = Snapshot(st, len)
    /\ i = 1
    /\ pc = "loop"
    /\ title = NoTitle
    /\ date_created = 0
    /\ duplicate_notes = <<>>
    /\ target_note_id = 0
    /\ merged_content = <<>>
    /\ d = 0
    /\ current_content = <<>>
    /\ page_url = NoUrl
    /\ results = [processed |-> 0, merged |-> 0, titles_updated |-> 0,
                  errors |-> <<>>]
    /\ log = <<>>
    /\ fails = 0
    /\ MatcherIdle
    /\ ReaderIdle
    /\ PipelineIdle

\* ------------------------------------------------------------------------
\* Collaborators
\* ------------------------------------------------------------------------
\* One call of the loop body for candidate i, with its outcome.
Call(op, id, val, ok) == [op |-> op, id |-> id, val |-> val, ok |-> ok, cand |-> i]

\* (variant: the store also answers calls on a note that was deleted)
Outcome_DeletedAnswers(n, ok) ==
    /\ ~ok => fails < MaxFails
    /\ fails' = IF ~ok THEN fails + 1 ELSE fails

\* A call on note n succeeds only if n is in the store; a call on a note of the
\* store may fail (network, auth) while the failure budget lasts.
Outcome(n, ok) ==
    /\ ok => store[n].exists
    /\ ~ok => (~store[n].exists \/ fails < MaxFails)
    /\ fails' = IF ~ok /\ store[n].exists THEN fails + 1 ELSE fails

\* etapi.search_note('note.title = "{title}" note.dateCreated >= TODAY-2'):
\* the notes of the store that match, in the store's order
SearchNote(t) ==
    SelectSeq(AllIds, LAMBDA n : /\ store[n].exists
                                 /\ store[n].title = t
                                 /\ Day(store[n].dateCreated) >= 0 - SearchWindow)

\* (variant: the same-day filter of lines 378-382 left out)
SameDay_AnyDay(found, date_str) == found

\* get_notes_by_title_and_date without the except branch
SameDay(found, date_str) ==
    SelectSeq(found, LAMBDA n : Day(store[n].dateCreated) = date_str)

\* list.sort(key=dateCreated): stable, ascending
RECURSIVE Insert(_, _)
Insert(sorted, n) ==
    IF sorted = <<>> THEN <<n>>
    ELSE IF DateLeq(store[Head(sorted)].dateCreated, store[n].dateCreated)
         THEN <<Head(sorted)>> \o Insert(Tail(sorted), n)
         ELSE <<n>> \o sorted

\* (variant: the sort of line 441 left out)
SortByDate_Unsorted(s) == s

RECURSIVE SortByDate(_)
SortByDate(s) ==
    IF s = <<>> THEN <<>>
    ELSE Insert(SortByDate(SubSeq(s, 1, Len(s) - 1)), s[Len(s)])

\* (variant: the single answer of the query taken as the target)
TargetOf_FirstFound(found, note_id) ==
    IF found = <<>> THEN note_id ELSE SortByDate(found)[1]

\* lines 432-445: the note to process, the candidate itself when the query
\* answers with at most one note, else the oldest of the group
TargetOf(found, note_id) ==
    IF Len(found) <= 1 THEN note_id ELSE SortByDate(found)[1]

\* (variant: the joined body trimmed before it is written)
FinalContent_Stripped(parts) == Strip(Join(parts, BlankLine))

\* '\n\n'.join(merged_content)
FinalContent(parts) == Join(parts, BlankLine)

\* (variant: the duplicate's body appended untrimmed)
Folded_Untrimmed(parts, dup_content) ==
    IF Strip(dup_content) # <<>> THEN Append(parts, dup_content) ELSE parts

\* lines 471-473: the part of a duplicate's body that is folded in
Folded(parts, dup_content) ==
    IF Strip(dup_content) # <<>> THEN Append(parts, Strip(dup_content)) ELSE parts

\* ------------------------------------------------------------------------
\* merge_lien_inclus_notes
\* ------------------------------------------------------------------------
\* (variant: the error is recorded and the run ends there)
Except_Abort ==
    /\ results' = [results EXCEPT !.errors =
                     Append(@, [kind |-> "note", ref |-> notes[i].title, cand |-> i])]
    /\ i' = i
    /\ pc' = "done"

\* lines 541-545, except Exception as e: record the error under the
\* candidate's title, go on with the next candidate
Except ==
    /\ results' = [results EXCEPT !.errors =
                     Append(@, [kind |-> "note", ref |-> notes[i].title, cand |-> i])]
    /\ i' = i + 1
    /\ pc' = "loop"

\* results['processed'] += 1 and the end of the loop body
Processed(res) ==
    /\ results' = [res EXCEPT !.processed = @ + 1]
    /\ i' = i + 1
    /\ pc' = "loop"

\* lines 417-426: the prefix test and etapi.get_note
GetNote ==
    /\ pc = "loop"
    /\ i <= Len(notes)
    /\ LET note_id == notes[i].noteId
       IN  /\ title' = Strip(notes[i].title)
           /\ IF ~StartsWith(title', LienInclus)
              THEN /\ i' = i + 1
                   /\ UNCHANGED <<pc, date_created, results, log, fails>>
              ELSE \E ok \in BOOLEAN :
                     /\ Outcome(note_id, ok)
                     /\ log' = Append(log, Call("get_note", note_id, <<>>, ok))
                     /\ IF ok
                        THEN /\ date_created' = Day(store[note_id].dateCreated)
                             /\ pc' = "find_duplicates"
                             /\ UNCHANGED <<i, results>>
                        ELSE /\ Except
                             /\ UNCHANGED date_created
    /\ UNCHANGED <<store, notes, duplicate_notes, target_note_id, merged_content,
                   d, current_content, page_url>>
    /\ UNCHANGED <<matcher, reader, pipeline>>

\* lines 429-445: get_notes_by_title_and_date and the choice of the target
FindDuplicates ==
    /\ pc = "find_duplicates"
    /\ \E ok \in BOOLEAN :
         /\ ~ok => fails < MaxFails
         /\ fails' = IF ok THEN fails ELSE fails + 1
         /\ log' = Append(log, Call("search", notes[i].noteId, title, ok))
         /\ LET found == IF ok THEN SameDay(SearchNote(title), date_created) ELSE <<>>
            IN  IF Len(found) <= 1
                THEN /\ duplicate_notes' = found
                     /\ target_note_id' = TargetOf(found, notes[i].noteId)
                     /\ pc' = "find_url"
                ELSE /\ duplicate_notes' = SortByDate(found)
                     /\ target_note_id' = TargetOf(found, notes[i].noteId)
                     /\ pc' = "get_oldest"
    /\ UNCHANGED <<store, notes, i, title, date_created, merged_content, d,
                   current_content, page_url, results>>
    /\ UNCHANGED <<matcher, reader, pipeline>>

\* lines 451-456: the body of the oldest note opens merged_content
GetOldest ==
    /\ pc = "get_oldest"
    /\ \E ok \in BOOLEAN :
         /\ Outcome(target_note_id, ok)
         /\ log' = Append(log, Call("get_content", target_note_id, <<>>, ok))
         /\ IF ok
            THEN /\ merged_content' = <<store[target_note_id].content>>
                 /\ d' = 2
                 /\ pc' = "get_dup"
                 /\ UNCHANGED <<i, results>>
            ELSE /\ Except
                 /\ UNCHANGED <<merged_content, d>>
    /\ UNCHANGED <<store, notes, title, date_created, duplicate_notes,
                   target_note_id, current_content, page_url>>
    /\ UNCHANGED <<matcher, reader, pipeline>>

\* lines 459-473: fetch the body of duplicate d and fold it in (links_found
\* of lines 463-469 is written and never read)
GetDup ==
    /\ pc = "get_dup"
    /\ LET dup_note_id == duplicate_notes[d]
       IN  \E ok \in BOOLEAN :
             /\ Outcome(dup_note_id, ok)
             /\ log' = Append(log, Call("get_content", dup_note_id, <<>>, ok))
             /\ IF ok
                THEN /\ merged_content' =
                          Folded(merged_content, store[dup_note_id].content)
                     /\ pc' = "delete_dup"
                     /\ UNCHANGED <<i, results>>
                ELSE /\ Except
                     /\ UNCHANGED merged_content
    /\ UNCHANGED <<store, notes, title, date_created, duplicate_notes,
                   target_note_id, d, current_content, page_url>>
    /\ UNCHANGED <<matcher, reader, pipeline>>

\* (variant: a failed delete is not caught by the inner try and ends the
\* candidate)
DeleteDup_Propagates ==
    /\ pc = "delete_dup"
    /\ LET dup_note_id == duplicate_notes[d]
       IN  \E ok \in BOOLEAN :
             /\ Outcome(dup_note_id, ok)
             /\ log' = Append(log, Call("delete", dup_note_id, <<>>, ok))
             /\ IF ok
                THEN /\ store' = [store EXCEPT ![dup_note_id].exists = FALSE]
                     /\ d' = d + 1
                     /\ pc' = IF d < Len(duplicate_notes) THEN "get_dup" ELSE "update"
                     /\ UNCHANGED <<i, results>>
                ELSE /\ Except
                     /\ UNCHANGED <<store, d>>
    /\ UNCHANGED <<notes, title, date_created, duplicate_notes, target_note_id,
                   merged_content, current_content, page_url>>
    /\ UNCHANGED <<matcher, reader, pipeline>>

\* lines 475-484: delete duplicate d; a failure is recorded and the loop goes on
DeleteDup ==
    /\ pc = "delete_dup"
    /\ LET dup_note_id == duplicate_notes[d]
       IN  \E ok \in BOOLEAN :
             /\ Outcome(dup_note_id, ok)
             /\ log' = Append(log, Call("delete", dup_note_id, <<>>, ok))
             /\ IF ok
                THEN /\ store' = [store EXCEPT ![dup_note_id].exists = FALSE]
                     /\ UNCHANGED results
                ELSE /\ results' = [results EXCEPT !.errors =
                          Append(@, [kind |-> "delete", ref |-> dup_note_id, cand |-> i])]
                     /\ UNCHANGED store
    /\ d' = d + 1
    /\ pc' = IF d < Len(duplicate_notes) THEN "get_dup" ELSE "update"
    /\ UNCHANGED <<notes, i, title, date_created, duplicate_notes, target_note_id,
                   merged_content, current_content, page_url>>
    /\ UNCHANGED <<matcher, reader, pipeline>>

\* lines 486-490: write the merged body to the oldest note
UpdateMerged ==
    /\ pc = "update"
    /\ LET final_content == FinalContent(merged_content)
       IN  \E ok \in BOOLEAN :
             /\ Outcome(target_note_id, ok)
             /\ log' = Append(log, Call("update", target_note_id, final_content, ok))
             /\ IF ok
                THEN /\ store' = [store EXCEPT ![target_note_id].content = final_content]
                     /\ results' = [results EXCEPT !.merged = @ + 1]
                     /\ pc' = "find_url"
                     /\ UNCHANGED i
                ELSE /\ Except
                     /\ UNCHANGED store
    /\ UNCHANGED <<notes, locals>>
    /\ UNCHANGED <<matcher, reader, pipeline>>

\* lines 496-517: fetch the target's current body and look for the page URL
FindUrl ==
    /\ pc = "find_url"
    /\ \E ok \in BOOLEAN :
         /\ Outcome(target_note_id, ok)
         /\ log' = Append(log, Call("get_content", target_note_id, <<>>, ok))
         /\ IF ok
            THEN /\ current_content' = store[target_note_id].content
                 /\ page_url' = FindPageUrl(store[target_note_id].content)
                 /\ IF page_url' # NoUrl
                    THEN /\ pc' = "create_label"
                         /\ UNCHANGED <<i, results>>
                    ELSE Processed(results)
            ELSE /\ Except
                 /\ UNCHANGED <<current_content, page_url>>
    /\ UNCHANGED <<store, notes, title, date_created, duplicate_notes,
                   target_note_id, merged_content, d>>
    /\ UNCHANGED <<matcher, reader, pipeline>>

\* (variant: the label is not created before the resolver is asked)
CreateLabel_Skipped ==
    /\ pc = "create_label"
    /\ pc' = "resolve"
    /\ UNCHANGED <<store, notes, i, locals, results, log, fails>>
    /\ UNCHANGED <<matcher, reader, pipeline>>

\* lines 519-527: the pageUrl label
CreateLabel ==
    /\ pc = "create_label"
    /\ \E ok \in BOOLEAN :
         /\ Outcome(target_note_id, ok)
         /\ log' = Append(log, Call("create_attribute", target_note_id, page_url, ok))
         /\ IF ok
            THEN /\ pc' = "resolve"
                 /\ UNCHANGED <<i, results>>
            ELSE Except
    /\ UNCHANGED <<store, notes, locals>>
    /\ UNCHANGED <<matcher, reader, pipeline>>

\* (variant: a resolver that finds no title raises into the candidate's
\* except branch)
Retitle_Raises ==
    /\ pc = "resolve"
    /\ \E article_title \in ArticleTitles \cup {NoTitle} :
         IF article_title = NoTitle
         THEN /\ log' = Append(log, Call("resolve", target_note_id, NoTitle, TRUE))
              /\ Except
              /\ UNCHANGED <<store, fails>>
         ELSE \E ok \in BOOLEAN :
                /\ Outcome(target_note_id, ok)
                /\ log' = log \o <<Call("resolve", target_note_id, article_title, TRUE),
                                   Call("patch", target_note_id, article_title, ok)>>
                /\ IF ok
                   THEN /\ store' = [store EXCEPT ![target_note_id].title = article_title]
                        /\ Processed([results EXCEPT !.titles_updated = @ + 1])
                   ELSE /\ Except
                        /\ UNCHANGED store
    /\ UNCHANGED <<notes, locals>>
    /\ UNCHANGED <<matcher, reader, pipeline>>

\* lines 531-539: the title resolver (extract_article_title_from_url, lines
\* 285-302, answers article.title or None and turns every exception into
\* None) and the rename
Retitle ==
    /\ pc = "resolve"
    /\ \E article_title \in ArticleTitles \cup {NoTitle} :
         IF article_title = NoTitle
         THEN /\ log' = Append(log, Call("resolve", target_note_id, NoTitle, TRUE))
              /\ Processed(results)
              /\ UNCHANGED <<store, fails>>
         ELSE \E ok \in BOOLEAN :
                /\ Outcome(target_note_id, ok)
                /\ log' = log \o <<Call("resolve", target_note_id, article_title, TRUE),
                                   Call("patch", target_note_id, article_title, ok)>>
                /\ IF ok
                   THEN /\ store' = [store EXCEPT ![target_note_id].title = article_title]
                        /\ Processed([results EXCEPT !.titles_updated = @ + 1])
                   ELSE /\ Except
                        /\ UNCHANGED store
    /\ UNCHANGED <<notes, locals>>
    /\ UNCHANGED <<matcher, reader, pipeline>>

\* line 547: return results
Return ==
    /\ pc = "loop"
    /\ i > Len(notes)
    /\ pc' = "done"
    /\ UNCHANGED <<store, notes, i, locals, results, log, fails>>
    /\ UNCHANGED <<matcher, reader, pipeline>>

Next ==
    \/ GetNote
    \/ FindDuplicates
    \/ GetOldest
    \/ GetDup
    \/ DeleteDup
    \/ UpdateMerged
    \/ FindUrl
    \/ CreateLabel
    \/ Retitle
    \/ Return

Spec == Init /\ [][Next]_vars

\* ------------------------------------------------------------------------
\* Type invariant
\* ------------------------------------------------------------------------
TypeOK ==
    /\ pc \in {"loop", "find_duplicates", "get_oldest", "get_dup", "delete_dup",
               "update", "find_url", "create_label", "resolve", "done"}
    /\ i \in 1..(Len(notes) + 1)
    /\ fails \in 0..MaxFails
    /\ target_note_id \in NoteIds \cup {0}

\* ------------------------------------------------------------------------
\* The hash-terminated match on its own: re.search of
\* (https?://[^#\s]+)(?=#) over a text
\* ------------------------------------------------------------------------
\* The merger at rest, at position p.
MergerIdle(p) ==
    /\ store = <<>>
    /\ notes = <<>>
    /\ i = 1
    /\ pc = p
    /\ title = NoTitle
    /\ date_created = 0
    /\ duplicate_notes = <<>>
    /\ target_note_id = 0
    /\ merged_content = <<>>
    /\ d = 0
    /\ current_content = <<>>
    /\ page_url = NoUrl
    /\ results = [processed |-> 0, merged |-> 0, titles_updated |-> 0,
                  errors |-> <<>>]
    /\ log = <<>>
    /\ fails = 0

\* The texts searched: up to MaxText tokens out of the scheme literal, an
\* ordinary character, the hash sign and a blank.
Texts == UNION {[1..n -> {"H", "a", "#", " "}] : n \in 0..MaxText}

InitMatch ==
    /\ MergerIdle("match")
    /\ subject \in Texts
    /\ match = NoUrl
    /\ ReaderIdle
    /\ PipelineIdle

\* lines 315-318 and 505-509: search the text, keep group 1 of the match
SearchUrl ==
    /\ pc = "match"
    /\ match' = HashTerminated(subject)
    /\ pc' = "matched"
    /\ UNCHANGED <<store, notes, i, locals, results, log, fails, subject, reader,
                   pipeline>>

NextMatch == SearchUrl

SpecMatch == InitMatch /\ [][NextMatch]_vars

\* ------------------------------------------------------------------------
\* process_read_notes: HTML bodies
\* ------------------------------------------------------------------------
\* An HTML body is a sequence of tokens: the start tag of an element with
\* its style and href attributes, an end tag, or a piece of whitespace text.
\* A style is the sequence of its properties: "bg" is a background-color
\* property written in lower case, "BG" the same property written in upper
\* case, "color" any other property.  Other text is left out: an element is
\* its tag, its attributes and its child elements.
NoStyle == <<>>

Open(e)    == [t |-> "open", tag |-> e.tag, style |-> e.style, href |-> e.href]
Close(tag) == [t |-> "close", tag |-> tag, style |-> NoStyle, href |-> FALSE]
Text(c)    == [t |-> "text", tag |-> c, style |-> NoStyle, href |-> FALSE]

\* A parsed body (soup) is the sequence of its elements in document order,
\* each with the position of its parent (0 at the top).

\* element.parent, and on up
RECURSIVE Ancestors(_, _)
Ancestors(tree, k) ==
    IF tree[k].parent = 0 THEN {}
    ELSE {tree[k].parent} \cup Ancestors(tree, tree[k].parent)

\* element.find_all()
Descendants(tree, k) == {m \in 1..Len(tree) : k \in Ancestors(tree, m)}

\* the child elements of k (of the top when k = 0), from position m on
RECURSIVE KidsFrom(_, _, _)
KidsFrom(tree, k, m) ==
    IF m > Len(tree) THEN <<>>
    ELSE (IF tree[m].parent = k THEN <<m>> ELSE <<>>) \o KidsFrom(tree, k, m + 1)

Kids(tree, k) == KidsFrom(tree, k, 1)

\* str(element)
RECURSIVE Str(_, _)
RECURSIVE StrAll(_, _)
Str(tree, k) ==
    <<Open(tree[k])>> \o StrAll(tree, Kids(tree, k)) \o <<Close(tree[k].tag)>>

StrAll(tree, ks) ==
    IF ks = <<>> THEN <<>> ELSE Str(tree, Head(ks)) \o StrAll(tree, Tail(ks))

\* the most recent open element with this tag, 0 when there is none
RECURSIVE LastOpen(_, _, _)
LastOpen(nodes, stack, tag) ==
    IF stack = <<>> THEN 0
    ELSE IF nodes[stack[Len(stack)]].tag = tag THEN Len(stack)
    ELSE LastOpen(nodes, SubSeq(stack, 1, Len(stack) - 1), tag)

\* BeautifulSoup(content, 'html.parser'): a start tag opens an element under
\* the innermost open one, an end tag closes the most recent open element of
\* that tag with everything opened inside it and is dropped when there is
\* none
RECURSIVE ParseFrom(_, _, _, _)
ParseFrom(tokens, j, stack, nodes) ==
    IF j > Len(tokens) THEN nodes
    ELSE IF tokens[j].t = "open"
    THEN ParseFrom(tokens, j + 1, Append(stack, Len(nodes) + 1),
                   Append(nodes, [tag |-> tokens[j].tag, style |-> tokens[j].style,
                                  href |-> tokens[j].href,
                                  parent |-> IF stack = <<>> THEN 0
                                             ELSE stack[Len(stack)]]))
    ELSE IF tokens[j].t = "close" /\ LastOpen(nodes, stack, tokens[j].tag) # 0
    THEN ParseFrom(tokens, j + 1,
                   SubSeq(stack, 1, LastOpen(nodes, stack, tokens[j].tag) - 1), nodes)
    ELSE ParseFrom(tokens, j + 1, stack, nodes)

Parse(tokens) == ParseFrom(tokens, 1, <<>>, <<>>)

\* content.strip() is empty
Blank(tokens) == \A k \in 1..Len(tokens) : tokens[k].t = "text"

\* str.lower() of a style property
Lower(prop) == IF prop = "BG" THEN "bg" ELSE prop

\* 'background-color' in element.get('style', '').lower()
has_background_color(e) == \E j \in 1..Len(e.style) : Lower(e.style[j]) = "bg"

\* (variant: every anchor counts as a link, with or without href)
Qualifies_AnyAnchor(e) == has_background_color(e) \/ e.tag = "a"

\* line 806: the element is a highlight or a link
Qualifies(e) == has_background_color(e) \/ (e.tag = "a" /\ e.href)

\* lines 755-764: re.sub(r'background-color\s*:\s*[^;]+;?', '', style) on the
\* style as written, the trailing ';' dropped, the attribute deleted when
\* nothing is left
StyleWithoutBackground(style) == SelectSeq(style, LAMBDA prop : prop # "bg")

\* the elements k..last of the subtree of k, positions counted from k
Subtree(tree, k) ==
    LET last == CHOOSE m \in {k} \cup Descendants(tree, k) :
                    \A n \in {k} \cup Descendants(tree, k) : n <= m
    IN  [j \in 1..(last - k + 1) |->
            [tree[k + j - 1] EXCEPT !.parent = IF j = 1 THEN 0 ELSE @ - (k - 1)]]

\* element.__copy__() followed by remove_background_color(element_copy),
\* which recurses into every child element (lines 766-780)
remove_background_color(tree, k) ==
    LET copy == Subtree(tree, k)
    IN  [j \in 1..Len(copy) |->
            [copy[j] EXCEPT !.style = StyleWithoutBackground(@)]]

ParagraphTags == {"p", "div", "h1", "h2", "h3", "h4", "h5", "h6"}

\* lines 782-788: the nearest enclosing block, 0 (None) when there is none
RECURSIVE get_paragraph_context(_, _)
get_paragraph_context(tree, k) ==
    IF tree[k].parent = 0 THEN 0
    ELSE IF tree[tree[k].parent].tag \in ParagraphTags THEN tree[k].parent
    ELSE get_paragraph_context(tree, tree[k].parent)

\* (variant: only the element itself is marked as processed)
Marked_SelfOnly(tree, k) == {k}

\* lines 808-810: the element and all its descendants are marked as processed
Marked(tree, k) == {k} \cup Descendants(tree, k)

\* lines 797-822: the elements to extract, in document order
RECURSIVE Collected(_, _, _, _)
Collected(tree, k, processed_element_ids, acc) ==
    IF k > Len(tree) THEN acc
    ELSE IF k \in processed_element_ids
    THEN Collected(tree, k + 1, processed_element_ids, acc)
    ELSE IF Qualifies(tree[k])
    THEN Collected(tree, k + 1, processed_element_ids \cup Marked(tree, k),
                   Append(acc, [original_element |-> k,
                                paragraph |-> get_paragraph_context(tree, k)]))
    ELSE Collected(tree, k + 1, processed_element_ids, acc)

\* paragraph_context != current_paragraph_tag is false: both are None, or
\* both are elements that compare equal, and two elements compare equal
\* when they have the same tag, the same attributes and equal contents
SameTag(tree, x, y) ==
    IF x = 0 \/ y = 0 THEN x = y ELSE Subtree(tree, x) = Subtree(tree, y)

\* lines 826-860: consecutive items are put in one block until the context
\* changes
RECURSIVE Grouped(_, _, _, _, _)
Grouped(tree, items, current_paragraph_tag, current_paragraph_elements, done) ==
    LET closed == IF current_paragraph_elements = <<>> THEN done
                  ELSE Append(done, [tag |-> current_paragraph_tag,
                                     elements |-> current_paragraph_elements])
    IN  IF items = <<>> THEN closed
        ELSE IF ~SameTag(tree, Head(items).paragraph, current_paragraph_tag)
        THEN Grouped(tree, Tail(items), Head(items).paragraph,
                     <<Head(items).original_element>>, closed)
        ELSE Grouped(tree, Tail(items), current_paragraph_tag,
                     Append(current_paragraph_elements, Head(items).original_element),
                     done)

\* the cleaned copies of the elements of a block as strings
RECURSIVE Copies(_, _)
Copies(tree, roots) ==
    IF roots = <<>> THEN <<>>
    ELSE <<Str(remove_background_color(tree, Head(roots)), 1)>>
         \o Copies(tree, Tail(roots))

\* lines 838-843 and 853-857: the block is a <p> or <div> as its context,
\* a <p> for any other context
Wrapper(tree, paragraph_tag) ==
    IF paragraph_tag # 0 /\ tree[paragraph_tag].tag \in {"p", "div"}
    THEN tree[paragraph_tag].tag ELSE "p"

Paragraph(tree, group) ==
    <<Open([tag |-> Wrapper(tree, group.tag), style |-> NoStyle, href |-> FALSE])>>
    \o Join(Copies(tree, group.elements), <<Text(" ")>>)
    \o <<Close(Wrapper(tree, group.tag))>>

\* line 863: '\n'.join(paragraphs)
RECURSIVE Paragraphs(_, _)
Paragraphs(tree, groups) ==
    IF groups = <<>> THEN <<>>
    ELSE <<Paragraph(tree, Head(groups))>> \o Paragraphs(tree, Tail(groups))

final_content(tree, groups) == Join(Paragraphs(tree, groups), <<Text("\n")>>)

\* ------------------------------------------------------------------------
\* process_read_notes
\* ------------------------------------------------------------------------
\* The elements a clipped body is made of: a paragraph, a heading, a span
\* highlighted with a lower-case background-color, a span highlighted with
\* an upper-case BACKGROUND-COLOR, a link that carries a colour and a
\* background colour, and an anchor without href.
Kinds ==
    { [tag |-> "p",    style |-> NoStyle,           href |-> FALSE],
      [tag |-> "h1",   style |-> NoStyle,           href |-> FALSE],
      [tag |-> "span", style |-> <<"bg">>,          href |-> FALSE],
      [tag |-> "span", style |-> <<"BG">>,          href |-> FALSE],
      [tag |-> "a",    style |-> <<"color", "bg">>, href |-> TRUE],
      [tag |-> "a",    style |-> NoStyle,           href |-> FALSE] }

\* the parent positions of n elements listed in document order
Shapes(n) ==
    {f \in [1..n -> 0..(n - 1)] :
        \A k \in 1..n :
            /\ f[k] < k
            /\ k > 1 =>
                  \/ f[k] \in {0, k - 1}
                  \/ f[k] \in Ancestors([m \in 1..n |-> [parent |-> f[m]]], k - 1)}

\* Bodies as a browser clips them: a block sits at the top or in another
\* block, and no anchor is inside an anchor.
WellFormed(tree) ==
    \A k \in 1..Len(tree) :
        /\ (tree[k].tag \in ParagraphTags /\ tree[k].parent # 0) =>
              tree[tree[k].parent].tag \in ParagraphTags
        /\ tree[k].tag = "a" =>
              \A m \in Ancestors(tree, k) : tree[m].tag # "a"

\* n elements of the kinds g in the shape f
Tree(n, f, g) ==
    [k \in 1..n |-> [tag |-> g[k].tag, style |-> g[k].style,
                     href |-> g[k].href, parent |-> f[k]]]

\* the body of a tree, one top-level element per line
Html(tree) ==
    Join([j \in 1..Len(Kids(tree, 0)) |-> Str(tree, Kids(tree, 0)[j])], <<Text("\n")>>)

\* what the note summary of a read note may say
ReadNotes == [isProtected : BOOLEAN, type : {"text", "code"}]

InitRead ==
    /\ MergerIdle("read")
    /\ MatcherIdle
    /\ PipelineIdle
    /\ \E n \in 0..MaxNodes : \E f \in Shapes(n) : \E g \in [1..n -> Kinds] :
         /\ WellFormed(Tree(n, f, g))
         /\ content = Html(Tree(n, f, g))
    /\ soup = <<>>
    /\ extracted_elements = <<>>
    /\ paragraphs = <<>>
    /\ updates = <<>>
    /\ read_results = [processed |-> 0, highlights_extracted |-> 0]
    /\ run = 0

\* lines 726-745: a protected note, a note that is not a text note and a
\* note with an empty body are passed over
SkipReadNote ==
    /\ pc = "read"
    /\ run < MaxRuns
    /\ \E note \in ReadNotes :
         \/ note.isProtected
         \/ note.type # "text"
         \/ Blank(content)
    /\ UNCHANGED <<merger, matcher, reader, pipeline>>

\* lines 738-870: one pass over a read note that is neither protected nor
\* of another type, and whose body is not empty
ProcessReadNote ==
    /\ pc = "read"
    /\ run < MaxRuns
    /\ \E note \in ReadNotes :
         /\ ~note.isProtected
         /\ note.type = "text"
    /\ ~Blank(content)
    /\ run' = run + 1
    /\ soup' = Parse(content)
    /\ extracted_elements' = Collected(soup', 1, {}, <<>>)
    /\ paragraphs' = Grouped(soup', extracted_elements', 0, <<>>, <<>>)
    /\ IF extracted_elements' # <<>> /\ paragraphs' # <<>>
       THEN /\ content' = final_content(soup', paragraphs')
            /\ updates' = Append(updates, [run |-> run', content |-> content'])
            /\ read_results' = [processed |-> read_results.processed + 1,
                                highlights_extracted |->
                                    read_results.highlights_extracted + 1]
       ELSE /\ read_results' = [read_results EXCEPT !.processed = @ + 1]
            /\ UNCHANGED <<content, updates>>
    /\ UNCHANGED <<merger, matcher, pipeline>>

NextRead ==
    \/ SkipReadNote
    \/ ProcessReadNote

SpecRead == InitRead /\ [][NextRead]_vars

\* ------------------------------------------------------------------------
\* main: the passes of one run over the notes of the store
\* ------------------------------------------------------------------------
\* What the queries and the passes of main read of a note: whether its
\* dateCreated, or only its dateModified, falls within the past days_back
\* days, its labels, whether its title starts with "Lien inclus : ", and
\* whether it is an unprotected text note.
MainNotes ==
    [age : {"created", "modified", "old"}, link : BOOLEAN,
     clipType : BOOLEAN, lien : BOOLEAN, plain : BOOLEAN]

\* the notes of the store in the order a query lists them
MainIds == [k \in 1..MaxCands |-> k]

\* the variables main's passes leave alone
outside == <<store, notes, i, locals, results, log, fails, matcher, reader>>

InitMain ==
    /\ MergerIdle("retrieve")
    /\ MatcherIdle
    /\ ReaderIdle
    /\ stored \in [1..MaxCands -> MainNotes]
    /\ recent_created_notes = <<>>
    /\ recent_modified_notes = <<>>
    /\ link_notes = <<>>
    /\ other_notes = <<>>
    /\ read_notes = <<>>
    /\ revision_results = [total |-> 0, successful |-> 0, failed |-> 0]
    /\ calls = <<>>
    /\ at = 1

\* a call to the store on note n, issued by a pass
Issue(op, n, by) == [op |-> op, id |-> n, by |-> by]

\* list[:max_notes]
Truncated(list, max_notes) ==
    IF Len(list) > max_notes THEN SubSeq(list, 1, max_notes) ELSE list

\* lines 1022-1036: --note-id names one note; it is the only modified note
\* and there are no created notes
RetrieveNote ==
    /\ pc = "retrieve"
    /\ \E n \in DOMAIN stored :
         /\ recent_modified_notes' = <<n>>
         /\ recent_created_notes' = <<>>
    /\ pc' = "filter"
    /\ UNCHANGED <<stored, link_notes, other_notes, read_notes,
                   revision_results, calls, at, outside>>

\* lines 1047-1082: the two queries (a query that fails answers []), the
\* return when no note was created, and the max_notes limit on both lists
RetrieveDays ==
    /\ pc = "retrieve"
    /\ \E created_ok, modified_ok \in BOOLEAN, max_notes \in 1..MaxCands :
         LET created  == IF created_ok
                         THEN SelectSeq(MainIds, LAMBDA n : stored[n].age = "created")
                         ELSE <<>>
             modified == IF modified_ok
                         THEN SelectSeq(MainIds, LAMBDA n : stored[n].age # "old")
                         ELSE <<>>
         IN  IF created = <<>>
             THEN /\ recent_created_notes' = created
                  /\ recent_modified_notes' = modified
                  /\ pc' = "end"
             ELSE /\ recent_created_notes' = Truncated(created, max_notes)
                  /\ recent_modified_notes' = Truncated(modified, max_notes)
                  /\ pc' = "filter"
    /\ UNCHANGED <<stored, link_notes, other_notes, read_notes,
                   revision_results, calls, at, outside>>

\* lines 1086-1107: created notes are split on #link, modified notes with
\* #clipType are the read notes
FilterNotes ==
    /\ pc = "filter"
    /\ link_notes' = SelectSeq(recent_created_notes, LAMBDA n : stored[n].link)
    /\ other_notes' = SelectSeq(recent_created_notes, LAMBDA n : ~stored[n].link)
    /\ read_notes' = SelectSeq(recent_modified_notes, LAMBDA n : stored[n].clipType)
    /\ pc' = "revisions"
    /\ at' = 1
    /\ UNCHANGED <<stored, recent_created_notes, recent_modified_notes,
                   revision_results, calls, outside>>

\* lines 1141-1151: a label search of lines 1091 and 1105, or the search
\* of line 217 that opens add_internal_links_to_notes, raises; the run exits
Exit ==
    /\ \/ pc = "filter"
       \/ pc = "internal_links" /\ at = 1
    /\ pc' = "end"
    /\ UNCHANGED <<pipeline, outside>>

\* The list a pass of main walks: line 1115 for the revisions, line 1123,
\* lines 577-591 (the "Lien inclus" notes first, then the other link
\* notes), line 1133.
Worklist(p) ==
    CASE p = "revisions"      -> other_notes \o read_notes
      [] p = "internal_links" -> other_notes
      [] p = "link_notes"     ->
             SelectSeq(link_notes, LAMBDA n : stored[n].lien)
             \o SelectSeq(link_notes, LAMBDA n : ~stored[n].lien)
      [] p = "read_notes"     -> read_notes
      [] OTHER                -> <<>>

\* lines 1113-1133: the order of the passes
After(p) ==
    CASE p = "revisions"      -> "internal_links"
      [] p = "internal_links" -> "link_notes"
      [] p = "link_notes"     -> "read_notes"
      [] OTHER                -> "end"

\* the notes deleted so far in the run
Gone == {calls[k].id : k \in {j \in 1..Len(calls) : calls[j].op = "delete"}}

\* a pass has walked its list (or the list is empty and the pass is not
\* called): the next pass starts
Advance ==
    /\ pc \in {"revisions", "internal_links", "link_notes", "read_notes"}
    /\ at > Len(Worklist(pc))
    /\ pc' = After(pc)
    /\ at' = 1
    /\ UNCHANGED <<stored, recent_created_notes, recent_modified_notes,
                   link_notes, other_notes, read_notes, revision_results,
                   calls, outside>>

\* lines 172-189: save_revision on the next note of the list; the call
\* answers true, or it answers false or raises and the note counts as failed
process_note_revisions ==
    /\ pc = "revisions"
    /\ at <= Len(Worklist(pc))
    /\ \E ok \in BOOLEAN :
         /\ ~ok => revision_results.failed < MaxFails
         /\ revision_results' =
                [total |-> Len(Worklist(pc)),
                 successful |-> revision_results.successful + (IF ok THEN 1 ELSE 0),
                 failed |-> revision_results.failed + (IF ok THEN 0 ELSE 1)]
    /\ calls' = Append(calls, Issue("save_revision", Worklist(pc)[at], "revisions"))
    /\ at' = at + 1
    /\ UNCHANGED <<pc, stored, recent_created_notes, recent_modified_notes,
                   link_notes, other_notes, read_notes>>
    /\ UNCHANGED <<store, notes, i, locals, results, log, fails, matcher, reader>>

\* lines 226-259: protected notes, "Lien inclus : " notes and notes that
\* are not text are passed over; the others get their internal links
add_internal_links_to_notes ==
    /\ pc = "internal_links"
    /\ at <= Len(Worklist(pc))
    /\ LET n == Worklist(pc)[at]
       IN  calls' = IF stored[n].plain /\ ~stored[n].lien
                    THEN Append(calls, Issue("auto_create_internal_link", n,
                                             "internal_links"))
                    ELSE calls
    /\ at' = at + 1
    /\ UNCHANGED <<pc, stored, recent_created_notes, recent_modified_notes,
                   link_notes, other_notes, read_notes, revision_results>>
    /\ UNCHANGED <<store, notes, i, locals, results, log, fails, matcher, reader>>

\* lines 585 and 415-545: one candidate of the merger.  Its group is some
\* of the "Lien inclus" notes still in the store, the candidate among them;
\* the calls issued are the deletes of the duplicates, the update of the
\* target, the label and the rename, up to the call at which the iteration
\* stops (a failed call, no URL, no title).
merge_lien_inclus_notes ==
    /\ pc = "link_notes"
    /\ at <= Len(Worklist(pc))
    /\ LET n == Worklist(pc)[at]
       IN  /\ stored[n].lien
           /\ IF n \in Gone
              THEN calls' = calls
              ELSE \E members \in SUBSET {m \in DOMAIN stored :
                                             stored[m].lien /\ m \notin Gone} :
                   \E target \in members :
                      /\ n \in members
                      /\ LET all == SelectSeq(MainIds, LAMBDA m : m \in members \ {target})
                             full == [k \in 1..Len(all) |-> Issue("delete", all[k], "merger")]
                                     \o << Issue("update", target, "merger"),
                                           Issue("create_attribute", target, "merger"),
                                           Issue("patch", target, "merger") >>
                         IN  \E p \in 0..Len(full) :
                                calls' = calls \o SubSeq(full, 1, p)
    /\ at' = at + 1
    /\ UNCHANGED <<pc, stored, recent_created_notes, recent_modified_notes,
                   link_notes, other_notes, read_notes, revision_results>>
    /\ UNCHANGED <<store, notes, i, locals, results, log, fails, matcher, reader>>

\* lines 591-690: one link note that is not a "Lien inclus" note; protected
\* notes and notes that are not text are passed over, the others get the
\* pageUrl label and the fetched article as their body when a URL is found
\* and the article is fetched
process_link_notes ==
    /\ pc = "link_notes"
    /\ at <= Len(Worklist(pc))
    /\ LET n == Worklist(pc)[at]
       IN  /\ ~stored[n].lien
           /\ IF ~stored[n].plain
              THEN calls' = calls
              ELSE \E p \in 0..2 :
                      calls' = calls \o SubSeq(<< Issue("create_attribute", n, "link"),
                                                  Issue("update", n, "link") >>, 1, p)
    /\ at' = at + 1
    /\ UNCHANGED <<pc, stored, recent_created_notes, recent_modified_notes,
                   link_notes, other_notes, read_notes, revision_results>>
    /\ UNCHANGED <<store, notes, i, locals, results, log, fails, matcher, reader>>

\* lines 723-870: one read note; protected notes, notes that are not text
\* and notes whose body cannot be read are passed over, the others are
\* rewritten when the extractor finds something to keep
process_read_notes ==
    /\ pc = "read_notes"
    /\ at <= Len(Worklist(pc))
    /\ LET n == Worklist(pc)[at]
       IN  IF ~stored[n].plain \/ n \in Gone
           THEN calls' = calls
           ELSE \E rewrite \in BOOLEAN :
                   calls' = IF rewrite
                            THEN Append(calls, Issue("update", n, "read"))
                            ELSE calls
    /\ at' = at + 1
    /\ UNCHANGED <<pc, stored, recent_created_notes, recent_modified_notes,
                   link_notes, other_notes, read_notes, revision_results>>
    /\ UNCHANGED <<store, notes, i, locals, results, log, fails, matcher, reader>>

NextMain ==
    \/ RetrieveNote
    \/ RetrieveDays
    \/ FilterNotes
    \/ Exit
    \/ Advance
    \/ process_note_revisions
    \/ add_internal_links_to_notes
    \/ merge_lien_inclus_notes
    \/ process_link_notes
    \/ process_read_notes

SpecMain == InitMain /\ [][NextMain]_vars

\* ------------------------------------------------------------------------
\* Vocabulary of the properties
\* ------------------------------------------------------------------------
\* The candidate the locals belong to: the one in progress, or the one just
\* finished when the loop is between two candidates.
Cur == IF pc \in {"loop", "done"} THEN i - 1 ELSE i

Finished == pc \in {"loop", "done"}

Entries(c) == {k \in 1..Len(log) : log[k].cand = c}

Issued(c, op) == {k \in Entries(c) : log[k].op = op}

Failed(c) == {k \in Entries(c) : ~log[k].ok}

ErrorsOf(c) == {k \in 1..Len(results.errors) : results.errors[k].cand = c}

\* the duplicate query of candidate c has answered with a group of 2 or more
Merging(c) == c >= 1 /\ Issued(c, "search") # {} /\ Len(duplicate_notes) >= 2

\* text contains part as a contiguous piece
Contains(text, part) ==
    \E j \in 1..(Len(text) + 1) :
        /\ j + Len(part) - 1 <= Len(text)
        /\ SubSeq(text, j, j + Len(part) - 1) = part

\* the bodies of duplicates k.. of the group as a merge leaves them in the target
RECURSIVE DuplicateBodies(_)
DuplicateBodies(k) ==
    IF k > Len(duplicate_notes) THEN <<>>
    ELSE LET body == Strip(store[duplicate_notes[k]].content)
         IN  (IF body = <<>> THEN <<>> ELSE <<"\n", "\n">> \o body)
             \o DuplicateBodies(k + 1)

\* ------------------------------------------------------------------------
\* C1.  When the duplicate query of a candidate returns 2 or more notes, the
\* target is a note of the group with the earliest dateCreated, it is still
\* in the store and no delete was issued for it; once the merge loop has run
\* to its end (the merged body is about to be, or has been, written) with
\* every delete succeeding, every other member of the group is gone from the
\* store.
\* ------------------------------------------------------------------------
C1_TargetEarliestOthersDeleted ==
    Merging(Cur) =>
        /\ target_note_id = duplicate_notes[1]
        /\ \A k \in 1..Len(duplicate_notes) :
              DateLeq(store[target_note_id].dateCreated,
                      store[duplicate_notes[k]].dateCreated)
        /\ store[target_note_id].exists
        /\ \A k \in Issued(Cur, "delete") : log[k].id # target_note_id
        /\ ( /\ (pc = "update" \/ Issued(Cur, "update") # {})
             /\ \A k \in Issued(Cur, "delete") : log[k].ok )
           => \A k \in 2..Len(duplicate_notes) : ~store[duplicate_notes[k]].exists

\* a group of three whose oldest note is not the first answer of the query,
\* merged and processed to the end
C1_Witness ==
    /\ Merging(Cur)
    /\ Finished
    /\ Len(duplicate_notes) = 3
    /\ Failed(Cur) = {}
    /\ \E k \in 1..MaxNotes : k < target_note_id /\ ~store[k].exists
    /\ results.processed > 0

\* ------------------------------------------------------------------------
\* C2.  The step that writes the merged body leaves in the target its body
\* from before the merge, followed by the trimmed body of every duplicate of
\* the group whose trimmed body is not empty, in the group's ascending
\* dateCreated order, each preceded by a blank line.
\* ------------------------------------------------------------------------
C2_MergedBody ==
    [][ (pc = "update" /\ pc' = "find_url") =>
            /\ \A k \in 1..(Len(duplicate_notes) - 1) :
                  DateLeq(store[duplicate_notes[k]].dateCreated,
                          store[duplicate_notes[k + 1]].dateCreated)
            /\ store'[target_note_id].content =
                  store[target_note_id].content \o DuplicateBodies(2) ]_vars

\* the bodies "a\nHx\n", " " and " c Hz#" of the 1st, 2nd and 3rd note of the
\* day end up as "a\nHx\n" "\n\n" "c Hz#"
C2_Witness ==
    /\ Merging(Cur)
    /\ Len(duplicate_notes) = 3
    /\ Issued(Cur, "update") # {}
    /\ store[target_note_id].content =
          <<"a", "\n", "H", "x", "\n">> \o <<"\n", "\n">> \o
          <<"c", " ", "H", "z", "#">>

\* ------------------------------------------------------------------------
\* C3.  A note whose body is about to be folded into a target, or that is
\* about to be deleted, has the candidate's trimmed title and was created on
\* the candidate's calendar day; every note deleted so far has the trimmed
\* title of the candidate it was deleted for and that candidate's day.
\* ------------------------------------------------------------------------
C3_OnlySameTitleSameDay ==
    /\ pc \in {"get_dup", "delete_dup"} =>
          /\ store[duplicate_notes[d]].title = Strip(notes[i].title)
          /\ Day(store[duplicate_notes[d]].dateCreated)
                = Day(store[notes[i].noteId].dateCreated)
    /\ \A k \in 1..Len(log) :
          (log[k].op = "delete" /\ log[k].ok) =>
              /\ store[log[k].id].title = Strip(notes[log[k].cand].title)
              /\ Day(store[log[k].id].dateCreated)
                    = Day(store[notes[log[k].cand].noteId].dateCreated)

\* a duplicate was deleted while a note with the same title created on
\* another day stays in the store
C3_Witness ==
    /\ \E k \in 1..Len(log) : log[k].op = "delete" /\ log[k].ok
    /\ Finished /\ Cur >= 1
    /\ \E n \in NoteIds :
          /\ store[n].exists
          /\ store[n].title = Strip(notes[Cur].title)
          /\ Day(store[n].dateCreated) # Day(store[notes[Cur].noteId].dateCreated)

\* ------------------------------------------------------------------------
\* C4.  Right after the duplicate query of a candidate has answered, the
\* group holds exactly the notes of the store that have the candidate's
\* trimmed title and were created on the candidate's calendar day, whatever
\* that day is.
\* ------------------------------------------------------------------------
C4_GroupIsAllSameTitleSameDay ==
    ( /\ log # <<>>
      /\ log[Len(log)].op = "search"
      /\ log[Len(log)].ok )
    => {duplicate_notes[k] : k \in 1..Len(duplicate_notes)}
         = {n \in NoteIds :
               /\ store[n].exists
               /\ store[n].title = Strip(notes[i].title)
               /\ Day(store[n].dateCreated) = Day(store[notes[i].noteId].dateCreated)}

\* ------------------------------------------------------------------------
\* C5.  When the duplicate query of a candidate answers with at most one
\* note, the target is the candidate, no delete and no update of a body is
\* issued for the candidate, and if no call fails the candidate's body is
\* fetched and searched for a page URL: when there is one, the pageUrl label
\* is created with it on the candidate, the title resolver is asked and the
\* candidate is renamed to the title it returns; when there is none, no
\* label is created and the note is not renamed.
\* ------------------------------------------------------------------------
C5_SingleNoteStillRetitled ==
    (Cur >= 1 /\ Issued(Cur, "search") # {} /\ Len(duplicate_notes) <= 1) =>
        /\ target_note_id = notes[Cur].noteId
        /\ Issued(Cur, "delete") = {}
        /\ Issued(Cur, "update") = {}
        /\ (Finished /\ Failed(Cur) \subseteq Issued(Cur, "search")) =>
              LET cand == notes[Cur].noteId
                  body == store[cand].content
                  url  == IF HashTerminated(body) # NoUrl
                          THEN HashTerminated(body) ELSE TrailingLine(body)
              IN  /\ \E k \in Issued(Cur, "get_content") : log[k].id = cand
                  /\ url # NoUrl =>
                       /\ \E k \in Issued(Cur, "create_attribute") :
                             log[k].id = cand /\ log[k].val = url
                       /\ \E r \in Issued(Cur, "resolve") :
                             log[r].val # NoTitle =>
                                /\ \E k \in Issued(Cur, "patch") :
                                      log[k].id = cand /\ log[k].val = log[r].val
                                /\ store[cand].title = log[r].val
                  /\ url = NoUrl =>
                       /\ Issued(Cur, "create_attribute") = {}
                       /\ Issued(Cur, "patch") = {}
                       /\ store[cand].title = notes[Cur].title

\* a lone note whose title carries whitespace, next to a note with the
\* trimmed title: the query answers with that other note alone, the
\* candidate is labelled and renamed
C5_Witness ==
    /\ Cur >= 1 /\ Finished
    /\ Len(duplicate_notes) = 1
    /\ duplicate_notes[1] # notes[Cur].noteId
    /\ Failed(Cur) = {}
    /\ \E k \in Issued(Cur, "patch") : log[k].id = notes[Cur].noteId
    /\ store[notes[Cur].noteId].title \in ArticleTitles

\* ------------------------------------------------------------------------
\* C6.  When the pageUrl label is about to be created, the URL it gets is
\* the hash-terminated match of the target's body as it is in the store at
\* that moment (the merged body, if the candidate was merged), and the
\* trimmed last http line of that body only when it has no hash-terminated
\* match; the create-attribute call carries that URL.
\* ------------------------------------------------------------------------
C6_UrlFromCurrentBody ==
    LET body == store[target_note_id].content
        url  == IF HashTerminated(body) # NoUrl
                THEN HashTerminated(body) ELSE TrailingLine(body)
    IN  /\ pc = "create_label" =>
              /\ \A k \in Issued(i, "update") : log[k].ok => log[k].val = body
              /\ page_url = url
        /\ pc = "resolve" =>
              /\ log[Len(log)].op = "create_attribute"
              /\ log[Len(log)].id = target_note_id
              /\ log[Len(log)].val = url

\* the oldest note ends with the plain line http://x, a later one holds
\* http://z followed by '#': the label gets http://z
C6_Witness ==
    /\ pc = "resolve"
    /\ Merging(i)
    /\ HashTerminated(merged_content[1]) = NoUrl
    /\ TrailingLine(store[target_note_id].content) = <<"H", "x">>
    /\ log[Len(log)].val = <<"H", "z">>

\* ------------------------------------------------------------------------
\* C7.  Within one run no target has its body rewritten by a merge twice and
\* no duplicate is folded in and deleted twice, whatever calls fail.
\* ------------------------------------------------------------------------
C7_GroupMergedAtMostOnce ==
    \A a, b \in 1..Len(log) :
        (a < b /\ log[a].id = log[b].id) =>
            /\ ~(log[a].op = "update" /\ log[a].ok /\ log[b].op = "update" /\ log[b].ok)
            /\ ~(log[a].op = "delete" /\ log[b].op = "delete")

\* ------------------------------------------------------------------------
\* C8.  When a candidate with a group of 2 or more has been worked through
\* and the only call that failed for it is the delete of one duplicate, then
\* every duplicate of the group was fetched and a delete was issued for it,
\* every duplicate but that one is gone from the store, the merged body was
\* written to the target and holds the trimmed non-empty body of every
\* duplicate (that one included) after a blank line, and the error list has
\* exactly one entry for the candidate, the failed delete.
\* ------------------------------------------------------------------------
C8_DeleteFailureIsolated ==
    ( /\ Merging(Cur)
      /\ Finished
      /\ \E f \in Failed(Cur) : Failed(Cur) = {f} /\ log[f].op = "delete" )
    => LET f == CHOOSE k \in Failed(Cur) : TRUE
       IN  /\ \A k \in 2..Len(duplicate_notes) :
                 LET n == duplicate_notes[k]
                 IN  /\ \E g \in Issued(Cur, "get_content") : log[g].id = n /\ log[g].ok
                     /\ \E e \in Issued(Cur, "delete") : log[e].id = n
                     /\ n # log[f].id => ~store[n].exists
                     /\ Strip(store[n].content) # <<>> =>
                           Contains(store[target_note_id].content,
                                    <<"\n", "\n">> \o Strip(store[n].content))
           /\ \E u \in Issued(Cur, "update") :
                 /\ log[u].ok
                 /\ log[u].id = target_note_id
                 /\ log[u].val = store[target_note_id].content
           /\ \A e \in ErrorsOf(Cur) :
                 results.errors[e] = [kind |-> "delete", ref |-> log[f].id, cand |-> Cur]
           /\ Cardinality(ErrorsOf(Cur)) = 1

\* a group of three: the delete of the first duplicate failed, the second
\* duplicate was deleted all the same and the target holds both bodies
C8_Witness ==
    /\ Merging(Cur)
    /\ Finished
    /\ Len(duplicate_notes) = 3
    /\ \E f \in Failed(Cur) :
          /\ Failed(Cur) = {f}
          /\ log[f].op = "delete"
          /\ log[f].id = duplicate_notes[2]
    /\ store[duplicate_notes[2]].exists
    /\ ~store[duplicate_notes[3]].exists
    /\ Strip(store[duplicate_notes[2]].content) # <<>>
    /\ Strip(store[duplicate_notes[3]].content) # <<>>

\* ------------------------------------------------------------------------
\* C9.  A failed get-note, get-content, update-content, create-attribute or
\* patch-title call is recorded in the error list under the title of the
\* candidate being processed and the loop moves on to the next candidate;
\* the merger returns only after the last candidate, and when it returns
\* every candidate of the list has been taken up.
\* ------------------------------------------------------------------------
C9_FailureRecordedRunGoesOn ==
    /\ \A k \in 1..Len(log) :
          ( /\ ~log[k].ok
            /\ log[k].op \in {"get_note", "get_content", "update",
                              "create_attribute", "patch"} )
          => /\ \E e \in 1..Len(results.errors) :
                   results.errors[e] = [kind |-> "note",
                                        ref  |-> notes[log[k].cand].title,
                                        cand |-> log[k].cand]
             /\ i > log[k].cand
    /\ pc = "done" =>
          /\ i = Len(notes) + 1
          /\ \A c \in 1..Len(notes) :
                \/ Issued(c, "get_note") # {}
                \/ ~StartsWith(Strip(notes[c].title), LienInclus)

\* a call failed for the first candidate, the second candidate was labelled
\* and renamed, and the merger returned
C9_Witness ==
    /\ pc = "done"
    /\ Len(notes) = 2
    /\ \E k \in Failed(1) : log[k].op \in {"get_content", "update", "create_attribute"}
    /\ \E k \in Issued(2, "patch") : log[k].ok
    /\ Len(results.errors) = 1
    /\ results.processed = 1

\* ------------------------------------------------------------------------
\* C10.  No store call fails for a candidate without an entry in the error
\* list for that candidate and is then followed by a write (update-content,
\* create-attribute, patch-title, delete-note) for the same candidate.
\* ------------------------------------------------------------------------
C10_NoFailureAbsorbed ==
    \A k, w \in 1..Len(log) :
        ( /\ k < w
          /\ ~log[k].ok
          /\ log[w].cand = log[k].cand
          /\ log[w].op \in {"update", "create_attribute", "patch", "delete"} )
        => ErrorsOf(log[k].cand) # {}

\* ------------------------------------------------------------------------
\* C11.  No note that is protected or whose type is not text is the object
\* of a successful write of the run: its body is not rewritten, it is not
\* renamed, it is given no attribute and it is not deleted.
\* ------------------------------------------------------------------------
C11_ProtectedAndNonTextUntouched ==
    \A k \in 1..Len(log) :
        (log[k].ok /\ log[k].op \in {"update", "patch", "create_attribute", "delete"})
        => /\ ~store[log[k].id].isProtected
           /\ store[log[k].id].type = "text"

\* ------------------------------------------------------------------------
\* C12.  When the title resolver answers with no title, the step adds no
\* entry to the error list, leaves the store (the target's title included)
\* as it is, keeps the pageUrl label created by the call just before,
\* counts the candidate as processed and moves on to the next candidate.
\* ------------------------------------------------------------------------
C12_NoTitleIsNotAnError ==
    [][ ( /\ pc = "resolve"
          /\ log'[Len(log')].op = "resolve"
          /\ log'[Len(log')].val = NoTitle )
        => /\ results'.errors = results.errors
           /\ store' = store
           /\ log[Len(log)] = [op |-> "create_attribute", id |-> target_note_id,
                                val |-> page_url, ok |-> TRUE, cand |-> i]
           /\ SubSeq(log', 1, Len(log)) = log
           /\ results'.processed = results.processed + 1
           /\ results'.titles_updated = results.titles_updated
           /\ i' = i + 1
           /\ pc' = "loop" ]_vars

\* the resolver found no title for the first candidate and the second
\* candidate was taken up after it
C12_Witness ==
    /\ \E k \in Issued(1, "resolve") : log[k].val = NoTitle
    /\ Issued(1, "patch") = {}
    /\ ErrorsOf(1) = {}
    /\ results.processed >= 1
    /\ Issued(2, "get_note") # {}

\* ------------------------------------------------------------------------
\* C13.  The title resolver is asked only right after the pageUrl label was
\* created on the same target with a page URL; a rename is issued exactly
\* when the resolver answers with a title, with that title; and when the
\* search of the target's body finds no page URL the candidate ends with no
\* attribute created, the resolver not asked and no rename.
\* ------------------------------------------------------------------------
C13_LabelThenResolveThenRename ==
    /\ \A k \in 1..Len(log) :
          /\ log[k].op = "resolve" =>
                /\ k > 1
                /\ log[k - 1].op = "create_attribute"
                /\ log[k - 1].ok
                /\ log[k - 1].id = log[k].id
                /\ log[k - 1].cand = log[k].cand
                /\ log[k - 1].val # NoUrl
                /\ log[k].val # NoTitle =>
                      /\ k < Len(log)
                      /\ log[k + 1].op = "patch"
          /\ log[k].op = "patch" =>
                /\ k > 1
                /\ log[k - 1].op = "resolve"
                /\ log[k - 1].id = log[k].id
                /\ log[k - 1].val = log[k].val
                /\ log[k].val # NoTitle
          /\ (log[k].op = "patch" /\ log[k].ok /\ k = Len(log)) =>
                store[log[k].id].title = log[k].val
    /\ ( /\ Finished
         /\ log # <<>>
         /\ log[Len(log)].op = "get_content"
         /\ log[Len(log)].ok )
       => /\ FindPageUrl(store[target_note_id].content) = NoUrl
          /\ Issued(Cur, "create_attribute") = {}
          /\ Issued(Cur, "resolve") = {}
          /\ Issued(Cur, "patch") = {}
    /\ pc = "create_label" => page_url # NoUrl
    /\ pc = "resolve" =>
          /\ log[Len(log)].op = "create_attribute"
          /\ log[Len(log)].ok

\* one candidate was labelled, resolved and renamed, another one had no page
\* URL in its body and ended with none of the three
C13_Witness ==
    /\ \E c \in 1..Len(notes) : \E k \in Issued(c, "patch") : log[k].ok
    /\ \E c \in 1..Len(notes) :
          /\ c < i
          /\ Issued(c, "get_content") # {}
          /\ Failed(c) = {}
          /\ Issued(c, "create_attribute") = {}
          /\ Issued(c, "resolve") = {}

\* ------------------------------------------------------------------------
\* C14 (as stated).  In a group of 2 or more whose duplicates all have an
\* empty body, no update-note-content is issued on the target.
\* ------------------------------------------------------------------------
C14_NoWriteWhenNothingMerged ==
    (Merging(Cur) /\ DuplicateBodies(2) = <<>>) => Issued(Cur, "update") = {}

\* ------------------------------------------------------------------------
\* C14 (amended).  In a group of 2 or more whose duplicates all have an
\* empty body, the merge still issues update-note-content on the target,
\* with the target's own body: the stored body is the same after the step
\* as before; a delete was issued for every duplicate of the group.
\* ------------------------------------------------------------------------
C14_WriteOfOwnBodyWhenNothingMerged ==
    [][ (pc = "update" /\ DuplicateBodies(2) = <<>>) =>
            /\ Len(log') = Len(log) + 1
            /\ log'[Len(log')].op = "update"
            /\ log'[Len(log')].id = target_note_id
            /\ log'[Len(log')].val = store[target_note_id].content
            /\ store'[target_note_id].content = store[target_note_id].content
            /\ \A k \in 2..Len(duplicate_notes) :
                  \E e \in Issued(i, "delete") : log[e].id = duplicate_notes[k] ]_vars

\* the target "a\nHx\n" of a group whose only duplicate has the body " " was
\* written with its own body and the duplicate is gone
C14_Witness ==
    /\ Merging(Cur)
    /\ DuplicateBodies(2) = <<>>
    /\ \E k \in Issued(Cur, "update") :
          /\ log[k].ok
          /\ log[k].val = <<"a", "\n", "H", "x", "\n">>
    /\ store[target_note_id].content = <<"a", "\n", "H", "x", "\n">>
    /\ ~store[duplicate_notes[2]].exists

\* ------------------------------------------------------------------------
\* C19.  The hash-terminated match of a text is the piece of the text that
\* begins at the leftmost scheme literal (http:// or https://) which is
\* followed by one or more characters other than '#' and whitespace and
\* then by '#'; the piece runs up to that '#' and does not include it.
\* When the text has no such place the match is empty.
\* ------------------------------------------------------------------------
C19_HashTerminatedIsLeftmost ==
    pc = "matched" =>
        LET Url(s, e) ==
                /\ s < e
                /\ e < Len(subject)
                /\ subject[s] = "H"
                /\ \A k \in (s + 1)..e : subject[k] \notin {"#", " ", "\n"}
                /\ subject[e + 1] = "#"
            places == {s \in 1..Len(subject) : \E e \in 1..Len(subject) : Url(s, e)}
        IN  IF places = {}
            THEN match = NoUrl
            ELSE \E s \in places :
                    /\ \A t \in places : s <= t
                    /\ \E e \in 1..Len(subject) :
                          /\ Url(s, e)
                          /\ match = SubSeq(subject, s, e)

\* "http://#http://a#": the first scheme literal is followed by '#' at once,
\* the match is the URL that begins at the second one
C19_Witness ==
    /\ pc = "matched"
    /\ subject = <<"H", "#", "H", "a", "#">>
    /\ match = <<"H", "a">>

\* ------------------------------------------------------------------------
\* Vocabulary of the properties of the extractor
\* ------------------------------------------------------------------------
\* the element has a background-color in its style, in any letter case
Highlighted(e) == \E j \in 1..Len(e.style) : e.style[j] \in {"bg", "BG"}

\* no element of the body is highlighted or is an anchor with a href
NothingToExtract(tokens) ==
    LET tree == Parse(tokens)
    IN  \A k \in 1..Len(tree) :
            /\ ~Highlighted(tree[k])
            /\ ~(tree[k].tag = "a" /\ tree[k].href)

\* the extraction roots of the last pass
Roots == {extracted_elements[j].original_element : j \in 1..Len(extracted_elements)}

\* the block of the last pass that holds root r
BlockOf(r) ==
    CHOOSE g \in 1..Len(paragraphs) :
        \E m \in 1..Len(paragraphs[g].elements) : paragraphs[g].elements[m] = r

\* ------------------------------------------------------------------------
\* C15.  From a body in which no element is highlighted and no anchor has a
\* href (the empty body included), no step of the extractor issues an
\* update-note-content and the stored body stays as it is.
\* ------------------------------------------------------------------------
C15_NothingToExtractNothingWritten ==
    [][ NothingToExtract(content) =>
            /\ updates' = updates
            /\ content' = content ]_vars

\* a pass was made over a body that holds an anchor without href and
\* nothing to extract; nothing was written
C15_Witness ==
    /\ run = 1
    /\ \E k \in 1..Len(soup) : soup[k].tag = "a"
    /\ NothingToExtract(content)
    /\ Parse(content) = soup
    /\ updates = <<>>
    /\ read_results.processed = 1
    /\ read_results.highlights_extracted = 0

\* ------------------------------------------------------------------------
\* C16.  No element of a body written by the extractor has a style that
\* holds background-color, in whatever letter case it is written.
\* ------------------------------------------------------------------------
C16_NoBackgroundColorWritten ==
    \A u \in 1..Len(updates) :
        LET tree == Parse(updates[u].content)
        IN  \A k \in 1..Len(tree) : ~Highlighted(tree[k])

\* ------------------------------------------------------------------------
\* C17.  When a pass of the extractor has written a body, the next pass over
\* that body writes nothing or writes the same body again.
\* ------------------------------------------------------------------------
C17_SecondPassIsNoOp ==
    \A u, v \in 1..Len(updates) :
        updates[v].run = updates[u].run + 1 =>
            updates[v].content = updates[u].content

\* ------------------------------------------------------------------------
\* C18.  Two elements extracted by a pass that have a nearest enclosing
\* block are in the same block of the output exactly when that enclosing
\* block is the same node of the body, and the blocks list the extracted
\* elements in document order.
\* ------------------------------------------------------------------------
C18_GroupedByParagraphNode ==
    run >= 1 =>
        /\ \A a, b \in 1..Len(extracted_elements) :
              ( /\ extracted_elements[a].paragraph # 0
                /\ extracted_elements[b].paragraph # 0 )
              => ( extracted_elements[a].paragraph = extracted_elements[b].paragraph
                   <=> BlockOf(extracted_elements[a].original_element)
                         = BlockOf(extracted_elements[b].original_element) )
        /\ \A a, b \in 1..Len(extracted_elements) :
              a < b => BlockOf(extracted_elements[a].original_element)
                         <= BlockOf(extracted_elements[b].original_element)

\* ------------------------------------------------------------------------
\* C20.  After a pass, every element of the parsed body that is highlighted
\* or is a link lies in the subtree of exactly one extraction root (the root
\* itself included); so no root lies inside another root, and the roots are
\* in document order.  A body written by the pass holds, besides its blocks,
\* one element for each element of those subtrees.
\* ------------------------------------------------------------------------
C20_ExtractedExactlyOnce ==
    run >= 1 =>
        /\ \A k \in 1..Len(soup) :
              Qualifies(soup[k]) =>
                 Cardinality({j \in 1..Len(extracted_elements) :
                     \/ extracted_elements[j].original_element = k
                     \/ extracted_elements[j].original_element \in Ancestors(soup, k)}) = 1
        /\ \A j \in 1..Len(extracted_elements) :
              /\ Qualifies(soup[extracted_elements[j].original_element])
              /\ j > 1 => extracted_elements[j - 1].original_element
                            < extracted_elements[j].original_element
        /\ \A u \in 1..Len(updates) :
              updates[u].run = run =>
                 Len(Parse(updates[u].content)) - Len(paragraphs)
                    = Cardinality(UNION {{r} \cup Descendants(soup, r) : r \in Roots})

\* a highlighted span that holds a link was extracted as one root
C20_Witness ==
    /\ run = 1
    /\ Len(updates) = 1
    /\ \E r \in Roots :
          /\ soup[r].tag = "span"
          /\ \E k \in Descendants(soup, r) : soup[k].tag = "a" /\ soup[k].href
    /\ Cardinality(Roots) = 2

\* ------------------------------------------------------------------------
\* C22.  While and after a duplicate group is processed, the trimmed body of
\* every duplicate of the group that has been deleted is a piece of the
\* target's stored body.
\* ------------------------------------------------------------------------
C22_DeletedBodyIsInTarget ==
    Merging(Cur) =>
        \A k \in Issued(Cur, "delete") :
            log[k].ok =>
                Contains(store[target_note_id].content, Strip(store[log[k].id].content))

\* ------------------------------------------------------------------------
\* C23.  In one run of the merger no note is the object of two
\* create-attribute calls, and no note is the object of two patch-title
\* calls.
\* ------------------------------------------------------------------------
C23_LabelAndRenameOncePerNote ==
    \A k, w \in 1..Len(log) :
        ( /\ k < w
          /\ log[k].op \in {"create_attribute", "patch"}
          /\ log[w].op = log[k].op )
        => log[w].id # log[k].id

\* ------------------------------------------------------------------------
\* C24.  No update-note-content, create-attribute, patch-title or
\* delete-note call is issued for a note after a delete-note call of the same
\* run has removed that note from the store.
\* ------------------------------------------------------------------------
C24_NoWriteOnDeletedNote ==
    \A k, w \in 1..Len(log) :
        ( /\ k < w
          /\ log[k].op = "delete"
          /\ log[k].ok
          /\ log[w].op \in {"update", "create_attribute", "patch", "delete"} )
        => log[w].id # log[k].id

\* the second candidate was deleted as a duplicate of the first one, whose
\* body holds a page URL; when its turn came get_note failed, the error was
\* recorded and the merger returned
C24_Witness ==
    /\ pc = "done"
    /\ Len(notes) = 2
    /\ \E k \in Issued(1, "delete") : log[k].ok /\ log[k].id = notes[2].noteId
    /\ HashTerminated(store[notes[2].noteId].content) # NoUrl
    /\ \E k \in Issued(2, "get_note") : ~log[k].ok
    /\ \A k \in Entries(2) : log[k].op = "get_note"
    /\ ErrorsOf(2) # {}

\* ------------------------------------------------------------------------
\* C21: revisions are saved before content is modified.  In a run of main,
\* every rewrite of a note's body by the extractor comes after a
\* save_revision call on that note (whether or not it succeeded), and no
\* note with the #link label has had a save_revision call when the merger
\* or the link-note pass rewrites, labels, renames or deletes it.
\* ------------------------------------------------------------------------
RevisionBefore(w) ==
    \E k \in 1..(w - 1) :
        calls[k].op = "save_revision" /\ calls[k].id = calls[w].id

C21_RevisionBeforeRewriteNoneForLink ==
    \A w \in 1..Len(calls) :
        /\ calls[w].by = "read" => RevisionBefore(w)
        /\ (calls[w].by \in {"merger", "link"} /\ stored[calls[w].id].link)
               => ~RevisionBefore(w)

====
